---- MODULE Spec2Model ----
(***************************************************************************)
(* Model of src/server.js: the AskDeck relay.  One process registers two  *)
(* routes.  POST /api/askdeck checks the module-level `model` handle,     *)
(* validates the body, composes a prompt, opens a chat session, awaits    *)
(* the remote completion and maps its outcome to an HTTP response.        *)
(* GET /api/health answers a fixed payload.                               *)
(*                                                                         *)
(* The file holds two revisions of the server one after the other; they   *)
(* differ in the model id, the temperature, the wording of the            *)
(* configuration error and the logging.  The first (lines 1-94) is the    *)
(* one modelled; the control flow of the second is the same.              *)
(*                                                                         *)
(* JavaScript values are tagged records, so that `undefined`, `null`,     *)
(* strings, arrays and objects can be compared and tested for truthiness  *)
(* as the code does.  Console output is not part of the state, except    *)
(* the line the setup block writes, which records how the setup ended.    *)
(***************************************************************************)
EXTENDS Integers, Sequences, FiniteSets

(* ------------------------------ bounds -------------------------------- *)
\* Number of requests the process receives in a behaviour.
NumReqs == 2
\* Longest candidate list a remote result carries.
MaxCandidates == 2

Reqs == 1..NumReqs

(* ------------------------- JavaScript values -------------------------- *)
Undef == [type |-> "undefined"]
Null == [type |-> "null"]
Str(s) == [type |-> "string", val |-> s]
Arr(items) == [type |-> "array", items |-> items]

\* ToBoolean, as `!x`, `x && y` and `if (x)` apply it.
Truthy(v) ==
    /\ v.type \notin {"undefined", "null"}
    /\ (v.type = "string" => v.val # "")

\* ToStr, as `'...' + x` and `${x}` apply it to the values met here.
ToStr(v) ==
    IF v.type = "string" THEN v.val
    ELSE IF v.type = "undefined" THEN "undefined"
    ELSE IF v.type = "null" THEN "null"
    ELSE "[object Object]"

\* x.length of an array
Length(a) == Len(a.items)

(* ------------------------------ startup ------------------------------- *)
\* process.env.GOOGLE_API_KEY: unset, set to the empty string, or set.
ApiKeys == {Undef, Str(""), Str("key")}
\* Where the try block of the setup throws, if it does.
ThrowPoints == {"none", "client", "model"}

ClientHandle == [type |-> "object", kind |-> "GoogleGenerativeAI"]
ModelHandle == [type |-> "object", kind |-> "GenerativeModel", model |-> "gemini-2.0-flash"]

\* genAI after the setup block
StartupGenAI(key, throwAt) ==
    IF Truthy(key) /\ throwAt # "client" THEN ClientHandle ELSE Undef

\* Variant: the model handle survives a throwing constructor call.
StartupModelAlwaysSet(key, throwAt) ==
    IF Truthy(key) THEN ModelHandle ELSE Undef

\* model after the setup block: assigned only if the key is truthy and
\* neither constructor call throws.
StartupModel(key, throwAt) ==
    IF Truthy(key) /\ throwAt = "none" THEN ModelHandle ELSE Undef

\* The line the setup block writes to the console.
StartupLog(key, throwAt) ==
    IF ~Truthy(key) THEN "key-not-set"
    ELSE IF throwAt = "none" THEN "initialized"
    ELSE "init-error"

generationConfig ==
    [temperature |-> "0.1", topP |-> "0.95", topK |-> "64",
     maxOutputTokens |-> "8192", responseMimeType |-> "text/plain"]

safetySettings ==
    << [category |-> "HARM_CATEGORY_HARASSMENT", threshold |-> "BLOCK_MEDIUM_AND_ABOVE"],
       [category |-> "HARM_CATEGORY_HATE_SPEECH", threshold |-> "BLOCK_MEDIUM_AND_ABOVE"],
       [category |-> "HARM_CATEGORY_SEXUALLY_EXPLICIT", threshold |-> "BLOCK_MEDIUM_AND_ABOVE"],
       [category |-> "HARM_CATEGORY_DANGEROUS_CONTENT", threshold |-> "BLOCK_MEDIUM_AND_ABOVE"] >>

(* --------------------------- request bodies --------------------------- *)
MessageValues == {Undef, Null, Str(""), Str("Capital of France?")}
ContextValues == {Undef, Str(""), Str("Deck: Europe")}

Body(m, c) == [type |-> "object", message |-> m, context |-> c]

\* req.body as the JSON middleware leaves it: an object, or undefined when
\* the request carried no JSON body and the middleware set none.
Bodies == {Undef} \cup {Body(m, c) : m \in MessageValues, c \in ContextValues}

(* ------------------------ HTTP responses ------------------------------ *)
ErrorResponse(status, msg) == [status |-> status, body |-> [error |-> msg]]
ReplyResponse(text) == [status |-> 200, body |-> [reply |-> text]]

ConfigErrorMsg ==
    "AI service is not configured correctly on the server. Check model ID and API key."
RequiredMsg == "Message and context are required."
InvalidMsg == "AI did not provide a valid response."
BlockedPrefix == "Response blocked: "
FailedPrefix == "Failed to get response from AI: "
\* message of the TypeError that destructuring an undefined req.body throws
DestructureMsg ==
    "Cannot destructure property 'message' of 'req.body' as it is undefined."

(* -------------------------- prompt composer --------------------------- *)
fullPrompt(context, message) ==
    ToStr(context) \o "\n\n---\n\nUser Question: " \o ToStr(message)
        \o "\n\nAskDeck Response:"

(* --------------------------- remote results --------------------------- *)
Part(text) == [type |-> "object", text |-> text]
Content(parts) == [type |-> "object", parts |-> parts]
Candidate(content) == [type |-> "object", content |-> content]

\* candidate.content.parts: missing, empty, one part with text, one part
\* without text, two parts.
PartsValues ==
    { Undef,
      Arr(<< >>),
      Arr(<< Part(Str("Paris")) >>),
      Arr(<< Part(Undef) >>),
      Arr(<< Part(Str("")), Part(Str("Paris")) >>) }

ContentValues == {Undef} \cup {Content(p) : p \in PartsValues}
Candidates == {Candidate(c) : c \in ContentValues}

SeqsUpTo(S, n) == UNION {[1..k -> S] : k \in 0..n}

\* The handler reads candidates.length and candidates[0] only, so the first
\* candidate ranges over every shape, and the later ones, which it never
\* reads, are candidates carrying one part.
LaterCandidates == {Candidate(Content(Arr(<< Part(Str("Paris")) >>)))}

CandidateLists ==
    {Undef, Arr(<< >>)} \cup
    {Arr(<< first >> \o rest) :
        first \in Candidates, rest \in SeqsUpTo(LaterCandidates, MaxCandidates - 1)}

PromptFeedbacks ==
    { Undef,
      [type |-> "object", blockReason |-> Str("")],
      [type |-> "object", blockReason |-> Str("SAFETY")] }

RemoteResponses ==
    {Undef} \cup
    {[type |-> "object", candidates |-> c, promptFeedback |-> f] :
        c \in CandidateLists, f \in PromptFeedbacks}

\* What chatSession.sendMessage resolves with.
Results == {[type |-> "object", response |-> x] : x \in RemoteResponses}

ErrorObj(msg) == [type |-> "object", message |-> Str(msg)]

\* What chatSession.sendMessage rejects with: an Error, a thrown string
\* (no message property), or undefined.
Rejections == {ErrorObj("ECONNRESET"), Str("quota exceeded"), Undef}

(* ----------------------- the askdeck handler -------------------------- *)
\* The test of line 67 on the awaited result.
HasReply(result) ==
    /\ Truthy(result.response)
    /\ Truthy(result.response.candidates)
    /\ Length(result.response.candidates) > 0
    /\ Truthy(result.response.candidates.items[1].content)
    /\ Truthy(result.response.candidates.items[1].content.parts)
    /\ Length(result.response.candidates.items[1].content.parts) > 0

\* Variant: the text of the last part instead of the first.
replyTextLastPart(result) ==
    LET parts == result.response.candidates.items[1].content.parts
    IN  parts.items[Length(parts)].text

\* result.response.candidates[0].content.parts[0].text
replyText(result) ==
    result.response.candidates.items[1].content.parts.items[1].text

\* result.response?.promptFeedback?.blockReason
blockReason(result) ==
    IF ~Truthy(result.response) THEN Undef
    ELSE IF ~Truthy(result.response.promptFeedback) THEN Undef
    ELSE result.response.promptFeedback.blockReason

\* Variant: the block reason is never reported.
errorMsgGeneric(result) == InvalidMsg

\* errorMsg of the else branch, lines 70-76
errorMsg(result) ==
    IF Truthy(blockReason(result))
    THEN BlockedPrefix \o ToStr(blockReason(result))
    ELSE InvalidMsg

\* The continuation after the await when the remote call resolved.
ResolvedResponse(result) ==
    IF HasReply(result)
    THEN ReplyResponse(replyText(result))
    ELSE ErrorResponse(500, errorMsg(result))

\* error.message in the catch block; a string has no such property.
MessageOf(error) ==
    IF error.type = "object" THEN error.message ELSE Undef

\* Reading error.message throws a TypeError when error is undefined or null.
CatchThrows(error) == error.type \in {"undefined", "null"}

\* Variant: the error message is left out of the response.
CaughtResponseNoDetail(error) ==
    ErrorResponse(500, "Failed to get response from AI")

\* The response the catch block of lines 79-82 sends.
CaughtResponse(error) ==
    ErrorResponse(500, FailedPrefix \o ToStr(MessageOf(error)))

\* Variant: only an undefined field counts as missing.
IsMissingOnlyUndefined(v) == v = Undef

\* `!message`, `!context` of line 60
IsMissing(v) == ~Truthy(v)

Respond(response) == [kind |-> "respond", response |-> response]
Submit(prompt) == [kind |-> "submit", prompt |-> prompt]

\* Variant: the field check precedes the gateway check.
HandlerValidateFirst(m, b) ==
    IF b = Undef
    THEN IF ~Truthy(m) THEN Respond(ErrorResponse(500, ConfigErrorMsg))
         ELSE Respond(CaughtResponse(ErrorObj(DestructureMsg)))
    ELSE IF IsMissing(b.message) \/ IsMissing(b.context)
    THEN Respond(ErrorResponse(400, RequiredMsg))
    ELSE IF ~Truthy(m)
    THEN Respond(ErrorResponse(500, ConfigErrorMsg))
    ELSE Submit(fullPrompt(b.context, b.message))

\* The handler of POST /api/askdeck up to its first suspension, lines 53-65:
\* either it responds and returns, or it submits the prompt and awaits.
Handler(m, b) ==
    IF ~Truthy(m)
    THEN Respond(ErrorResponse(500, ConfigErrorMsg))
    ELSE IF b = Undef
    THEN Respond(CaughtResponse(ErrorObj(DestructureMsg)))
    ELSE IF IsMissing(b.message) \/ IsMissing(b.context)
    THEN Respond(ErrorResponse(400, RequiredMsg))
    ELSE Submit(fullPrompt(b.context, b.message))

(* ------------------------------- state -------------------------------- *)
VARIABLES
    apiKey,              \* process.env.GOOGLE_API_KEY as read at startup
    genAI,               \* module-level client handle
    model,               \* module-level model handle; undefined = gateway disabled
    startupLog,          \* the console line the setup block wrote
    forwardsRejections,  \* whether the installed router passes a rejected
                         \* handler promise to its error middleware
    route,               \* per request: "none" before arrival, else its route
    body,                \* per request: req.body
    pc,                  \* per request: position of its handler
    chatSession,         \* per request: the session its handler opened
    remoteCalls,         \* per request: number of sendMessage calls made
    responses,           \* per request: the responses written to res
    lastOutcome          \* the request and the value (`result` or `error`) of
                         \* the continuation that ran last

vars ==
    << apiKey, genAI, model, startupLog, forwardsRejections, route, body, pc,
       chatSession, remoteCalls, responses, lastOutcome >>

startup == << apiKey, genAI, model, startupLog, forwardsRejections >>

NoOutcome == [req |-> 0, kind |-> "none", value |-> Undef]

\* The response the router's default error middleware writes.
FrameworkErrorResponse == [status |-> 500, body |-> [html |-> "Internal Server Error"]]

Init ==
    /\ \E key \in ApiKeys, throwAt \in ThrowPoints :
          /\ apiKey = key
          /\ genAI = StartupGenAI(key, throwAt)
          /\ model = StartupModel(key, throwAt)
          /\ startupLog = StartupLog(key, throwAt)
    /\ forwardsRejections \in BOOLEAN
    /\ route = [r \in Reqs |-> "none"]
    /\ body = [r \in Reqs |-> Undef]
    /\ pc = [r \in Reqs |-> "none"]
    /\ chatSession = [r \in Reqs |-> Undef]
    /\ remoteCalls = [r \in Reqs |-> 0]
    /\ responses = [r \in Reqs |-> << >>]
    /\ lastOutcome = NoOutcome

\* Requests are numbered in the order the process receives them.
Arrives(r) ==
    /\ pc[r] = "none"
    /\ \A q \in Reqs : q < r => pc[q] # "none"

\* res.json / res.status(..).json: one more response written for r.
Send(r, response) == responses' = [responses EXCEPT ![r] = Append(@, response)]

\* Variant: a session inherits turns once another request has opened one.
startChatSharedHistory(r, prompt) ==
    [type |-> "object",
     generationConfig |-> generationConfig,
     safetySettings |-> safetySettings,
     history |-> IF \E q \in Reqs : q # r /\ Truthy(chatSession[q])
                 THEN << "earlier turn" >> ELSE << >>,
     sent |-> << prompt >>]

\* model.startChat({generationConfig, safetySettings, history: []}) followed
\* by sendMessage(fullPrompt): the session of request r.
startChat(r, prompt) ==
    [type |-> "object",
     generationConfig |-> generationConfig,
     safetySettings |-> safetySettings,
     history |-> << >>,
     sent |-> << prompt >>]

\* POST /api/askdeck arrives with req.body = b and its handler runs up to
\* its return or its await.
PostAskDeck(r, b) ==
    /\ Arrives(r)
    /\ route' = [route EXCEPT ![r] = "askdeck"]
    /\ body' = [body EXCEPT ![r] = b]
    /\ LET step == Handler(model, b)
       IN  IF step.kind = "respond"
           THEN /\ Send(r, step.response)
                /\ pc' = [pc EXCEPT ![r] = "answered"]
                /\ UNCHANGED << chatSession, remoteCalls >>
           ELSE /\ chatSession' = [chatSession EXCEPT ![r] = startChat(r, step.prompt)]
                /\ remoteCalls' = [remoteCalls EXCEPT ![r] = @ + 1]
                /\ pc' = [pc EXCEPT ![r] = "awaiting"]
                /\ UNCHANGED responses
    /\ UNCHANGED << startup, lastOutcome >>

HealthMessage == "AskDeck API backend is running on Render."

\* Variant: the health route reports the gateway state.
HealthResponseGated ==
    IF Truthy(model)
    THEN [status |-> 200, body |-> [status |-> "ok", message |-> HealthMessage]]
    ELSE [status |-> 503, body |-> [status |-> "unavailable", message |-> HealthMessage]]

\* res.json of the health route: status 200 by default; `model` is not read.
HealthResponse ==
    [status |-> 200, body |-> [status |-> "ok", message |-> HealthMessage]]

\* GET /api/health arrives and is answered.
GetHealth(r) ==
    /\ Arrives(r)
    /\ route' = [route EXCEPT ![r] = "health"]
    /\ Send(r, HealthResponse)
    /\ pc' = [pc EXCEPT ![r] = "answered"]
    /\ UNCHANGED << startup, body, chatSession, remoteCalls, lastOutcome >>

\* The awaited sendMessage of request r resolves with `result`.
RemoteResolves(r, result) ==
    /\ pc[r] = "awaiting"
    /\ Send(r, ResolvedResponse(result))
    /\ pc' = [pc EXCEPT ![r] = "answered"]
    /\ lastOutcome' = [req |-> r, kind |-> "resolved", value |-> result]
    /\ UNCHANGED << startup, route, body, chatSession, remoteCalls >>

\* Variant: a rejected submission is retried once before giving up.
RemoteRejectsRetry(r, error) ==
    /\ pc[r] = "awaiting"
    /\ IF remoteCalls[r] < 2
       THEN /\ remoteCalls' = [remoteCalls EXCEPT ![r] = @ + 1]
            /\ UNCHANGED << pc, responses >>
       ELSE /\ Send(r, CaughtResponse(ErrorObj("retries exhausted")))
            /\ pc' = [pc EXCEPT ![r] = "answered"]
            /\ UNCHANGED remoteCalls
    /\ lastOutcome' = [req |-> r, kind |-> "retried", value |-> error]
    /\ UNCHANGED << startup, route, body, chatSession >>

\* The awaited sendMessage of request r rejects with `error`: the catch
\* block runs.  If reading error.message throws there, the handler's promise
\* rejects with nothing written to res; the router then either ignores the
\* rejection or hands it to its error middleware.
RemoteRejects(r, error) ==
    /\ pc[r] = "awaiting"
    /\ IF ~CatchThrows(error)
       THEN /\ Send(r, CaughtResponse(error))
            /\ pc' = [pc EXCEPT ![r] = "answered"]
       ELSE IF forwardsRejections
       THEN /\ Send(r, FrameworkErrorResponse)
            /\ pc' = [pc EXCEPT ![r] = "answered"]
       ELSE /\ pc' = [pc EXCEPT ![r] = "unhandled"]
            /\ UNCHANGED responses
    /\ lastOutcome' = [req |-> r, kind |-> "rejected", value |-> error]
    /\ UNCHANGED << startup, route, body, chatSession, remoteCalls >>

Next ==
    \/ \E r \in Reqs, b \in Bodies : PostAskDeck(r, b)
    \/ \E r \in Reqs : GetHealth(r)
    \/ \E r \in Reqs, result \in Results : RemoteResolves(r, result)
    \/ \E r \in Reqs, error \in Rejections : RemoteRejects(r, error)

Spec == Init /\ [][Next]_vars

(* ============================== claims ================================ *)
AskDeck(r) == route[r] = "askdeck"
Enabled == Truthy(model)

ValidMessage == Str("Capital of France?")
ValidContext == Str("Deck: Europe")

\* A field that is absent (undefined), null or the empty string.
AbsentOrEmpty(v) == v \in {Undef, Null, Str("")}
Present(v) == ~AbsentOrEmpty(v)

ConfigError500 ==
    [status |-> 500,
     body |-> [error |-> "AI service is not configured correctly on the server. Check model ID and API key."]]
Validation400 ==
    [status |-> 400, body |-> [error |-> "Message and context are required."]]

(* C1: with the gateway disabled (model never set), every POST /api/askdeck *)
(* request, whatever its body, has been answered exactly once, with status  *)
(* 500 and the configuration error message.                                 *)
C1_DisabledAnswers500 ==
    ~Enabled =>
        \A r \in Reqs : AskDeck(r) =>
            /\ pc[r] = "answered"
            /\ responses[r] = << ConfigError500 >>

\* Disabled gateway; a request with a valid body and one with an empty
\* object as body have both been handled.
C1_Witness ==
    /\ ~Enabled
    /\ \E r, q \in Reqs :
          /\ AskDeck(r) /\ body[r] = Body(ValidMessage, ValidContext)
          /\ AskDeck(q) /\ body[q] = Body(Undef, Undef)
          /\ responses[r] = << ConfigError500 >>
          /\ responses[q] = << ConfigError500 >>

\* The case C2 speaks of: message absent or empty with context present, or
\* context absent with message present.
OneFieldMissing(b) ==
    /\ b # Undef
    /\ \/ AbsentOrEmpty(b.message) /\ Present(b.context)
       \/ b.context = Undef /\ Present(b.message)

(* C2 as stated: every POST /api/askdeck request with message absent or     *)
(* empty and context present (or context absent and message present) is     *)
(* answered 400 "Message and context are required."                         *)
C2_Original ==
    \A r \in Reqs : AskDeck(r) /\ OneFieldMissing(body[r]) =>
        responses[r] = << Validation400 >>

(* C2 amended: when the gateway is enabled, every POST /api/askdeck request *)
(* with message absent or empty and context present (or context absent and  *)
(* message present) is answered 400 "Message and context are required."     *)
C2_Enabled400 ==
    Enabled =>
        \A r \in Reqs : AskDeck(r) /\ OneFieldMissing(body[r]) =>
            /\ pc[r] = "answered"
            /\ responses[r] = << Validation400 >>

\* Enabled gateway; an empty message with a context, and a message without
\* a context, have both been answered 400.
C2_Witness ==
    /\ Enabled
    /\ \E r, q \in Reqs :
          /\ AskDeck(r) /\ body[r] = Body(Str(""), ValidContext)
          /\ AskDeck(q) /\ body[q] = Body(ValidMessage, Undef)
          /\ responses[r] = << Validation400 >>
          /\ responses[q] = << Validation400 >>

\* The candidates of a result, as a sequence (empty when there is none).
CandidatesOf(result) ==
    IF result.response = Undef THEN << >>
    ELSE IF result.response.candidates = Undef THEN << >>
    ELSE result.response.candidates.items

\* The parts of a candidate, as a sequence (empty when there is none).
PartsOf(candidate) ==
    IF candidate.content = Undef THEN << >>
    ELSE IF candidate.content.parts = Undef THEN << >>
    ELSE candidate.content.parts.items

\* Some candidate of the result has at least one content part.
SomeCandidateHasPart(result) ==
    \E i \in DOMAIN CandidatesOf(result) : PartsOf(CandidatesOf(result)[i]) # << >>

\* The first candidate that has a part.
FirstWithPart(result) ==
    LET cs == CandidatesOf(result)
        i == CHOOSE i \in DOMAIN cs :
                /\ PartsOf(cs[i]) # << >>
                /\ \A j \in DOMAIN cs : j < i => PartsOf(cs[j]) = << >>
    IN  cs[i]

\* The first candidate of the result has at least one content part.
FirstCandidateHasPart(result) ==
    /\ CandidatesOf(result) # << >>
    /\ PartsOf(CandidatesOf(result)[1]) # << >>

Resolved == lastOutcome.kind = "resolved"
Rejected == lastOutcome.kind = "rejected"

(* C3 as stated: for every remote result that contains at least one         *)
(* candidate with at least one content part, the handler answers 200 with   *)
(* {reply: text}, text being that candidate's first part's text.            *)
C3_Original ==
    Resolved /\ SomeCandidateHasPart(lastOutcome.value) =>
        responses[lastOutcome.req] =
            << [status |-> 200,
                body |-> [reply |-> PartsOf(FirstWithPart(lastOutcome.value))[1].text]] >>

(* C3 amended: for every remote result whose first candidate has at least   *)
(* one content part, the handler answers 200 with {reply: text}, text being *)
(* the text of the first part of the first candidate.                       *)
C3_FirstCandidateReply ==
    Resolved /\ FirstCandidateHasPart(lastOutcome.value) =>
        responses[lastOutcome.req] =
            << [status |-> 200,
                body |-> [reply |-> PartsOf(CandidatesOf(lastOutcome.value)[1])[1].text]] >>

\* A result of two candidates whose first has the part "Paris" was relayed
\* as 200 {reply: "Paris"}.
C3_Witness ==
    /\ Resolved
    /\ Len(CandidatesOf(lastOutcome.value)) = 2
    /\ PartsOf(CandidatesOf(lastOutcome.value)[1]) = << Part(Str("Paris")) >>
    /\ responses[lastOutcome.req] = << [status |-> 200, body |-> [reply |-> Str("Paris")]] >>

\* The result carries a block reason at the prompt-feedback level.
CarriesBlockReason(result) ==
    /\ result.response # Undef
    /\ result.response.promptFeedback # Undef
    /\ result.response.promptFeedback.blockReason \notin {Undef, Null, Str("")}

(* C4: for every remote result that does not qualify as a success (no       *)
(* response, candidate list missing or empty, first candidate without       *)
(* content parts), the handler answers 500, with error                      *)
(* "Response blocked: <reason>" exactly when the result carries a           *)
(* prompt-feedback block reason and "AI did not provide a valid response."  *)
(* otherwise.                                                               *)
C4_FailureMapping ==
    Resolved /\ ~FirstCandidateHasPart(lastOutcome.value) =>
        responses[lastOutcome.req] =
            << [status |-> 500,
                body |-> [error |->
                    IF CarriesBlockReason(lastOutcome.value)
                    THEN "Response blocked: "
                            \o lastOutcome.value.response.promptFeedback.blockReason.val
                    ELSE "AI did not provide a valid response."]] >>

\* An empty candidate list with block reason SAFETY was answered
\* 500 "Response blocked: SAFETY".
C4_Witness ==
    /\ Resolved
    /\ lastOutcome.value.response # Undef
    /\ lastOutcome.value.response.candidates = Arr(<< >>)
    /\ CarriesBlockReason(lastOutcome.value)
    /\ responses[lastOutcome.req] =
          << [status |-> 500, body |-> [error |-> "Response blocked: SAFETY"]] >>

\* The rejection value has a message.
HasMessage(error) == error.type = "object"

(* C5: whenever the remote submission of a request rejects with message m,  *)
(* that request is answered 500 with                                        *)
(* {error: "Failed to get response from AI: " + m}.                         *)
C5_TransportError ==
    Rejected /\ HasMessage(lastOutcome.value) =>
        /\ pc[lastOutcome.req] = "answered"
        /\ responses[lastOutcome.req] =
              << [status |-> 500,
                  body |-> [error |-> "Failed to get response from AI: "
                                        \o lastOutcome.value.message.val]] >>

\* A rejection with message ECONNRESET was answered
\* 500 "Failed to get response from AI: ECONNRESET".
C5_Witness ==
    /\ Rejected
    /\ lastOutcome.value = ErrorObj("ECONNRESET")
    /\ responses[lastOutcome.req] =
          << [status |-> 500,
              body |-> [error |-> "Failed to get response from AI: ECONNRESET"]] >>

(* C6: GET /api/health answers 200 with status "ok" in every reachable      *)
(* state: every health request received has exactly that response, and a    *)
(* health request that arrives is answered whatever the gateway state and   *)
(* however many askdeck requests are pending.                               *)
C6_HealthAlwaysOk ==
    /\ \A r \in Reqs : route[r] = "health" =>
          /\ pc[r] = "answered"
          /\ Len(responses[r]) = 1
          /\ responses[r][1].status = 200
          /\ responses[r][1].body.status = "ok"
    /\ \A r \in Reqs : Arrives(r) => ENABLED GetHealth(r)

\* A health request answered 200 while an earlier askdeck request is still
\* pending on the remote service.
C6_Witness ==
    \E r, q \in Reqs :
        /\ pc[q] = "awaiting"
        /\ route[r] = "health"
        /\ responses[r] = << [status |-> 200,
                              body |-> [status |-> "ok",
                                        message |-> "AskDeck API backend is running on Render."]] >>

\* The gateway state as startup decided it.
KeyPresent == apiKey \notin {Undef, Str("")}
ConstructionThrew == startupLog = "init-error"

(* C7: the gateway is enabled if and only if the API key was present and    *)
(* client construction did not throw, and no step of request handling       *)
(* changes the model handle, the client handle or the key.                  *)
C7_GatewayFixed ==
    /\ [](Enabled <=> (KeyPresent /\ ~ConstructionThrew))
    /\ [](Enabled => Truthy(genAI))
    /\ [][model' = model /\ genAI' = genAI /\ apiKey' = apiKey]_vars

\* Enabled gateway after a failed request, with another request in flight.
C7_Witness ==
    /\ Enabled
    /\ Rejected
    /\ \E q \in Reqs : pc[q] = "awaiting"

(* C8: every POST /api/askdeck request submits to the remote service at     *)
(* most once; it submits only after the gateway check and the field check   *)
(* have passed; a request answered with the configuration 500 or the        *)
(* validation 400 submitted zero times.                                     *)
C8_AtMostOneSubmission ==
    \A r \in Reqs :
        /\ remoteCalls[r] <= 1
        /\ remoteCalls[r] = 1 =>
              /\ Enabled
              /\ body[r] # Undef
              /\ Present(body[r].message)
              /\ Present(body[r].context)
        /\ (responses[r] # << >> /\ responses[r][1] \in {ConfigError500, Validation400}) =>
              remoteCalls[r] = 0

\* A request answered after a transport error with one submission made, and
\* a request answered 400 with none.
C8_Witness ==
    \E r, q \in Reqs :
        /\ Rejected /\ lastOutcome.req = r
        /\ pc[r] = "answered" /\ remoteCalls[r] = 1
        /\ responses[q] = << Validation400 >> /\ remoteCalls[q] = 0

(* C9 as stated: every POST /api/askdeck request whose handling has ended   *)
(* (it was answered at once, or its remote call resolved or rejected, with  *)
(* any value) has received exactly one response, with status 200, 400 or    *)
(* 500.                                                                     *)
C9_ExactlyOneResponse ==
    \A r \in Reqs : AskDeck(r) /\ pc[r] # "awaiting" =>
        /\ Len(responses[r]) = 1
        /\ responses[r][1].status \in {200, 400, 500}

\* What belongs to request r.
PerRequest(r) ==
    << route[r], body[r], pc[r], chatSession[r], remoteCalls[r], responses[r] >>

\* Every session was opened with empty history and sent the prompt composed
\* from its own request's body, once.
OwnSession ==
    \A r \in Reqs : pc[r] = "awaiting" \/ remoteCalls[r] > 0 =>
        /\ chatSession[r] # Undef
        /\ chatSession[r].history = << >>
        /\ chatSession[r].sent =
              << body[r].context.val \o "\n\n---\n\nUser Question: "
                    \o body[r].message.val \o "\n\nAskDeck Response:" >>

\* A request that has not arrived can be handled, and a suspended request
\* can be resumed, whatever the other requests are doing.
NeverBlocked ==
    \A r \in Reqs :
        /\ Arrives(r) => /\ ENABLED GetHealth(r)
                         /\ ENABLED PostAskDeck(r, Body(ValidMessage, ValidContext))
        /\ pc[r] = "awaiting" =>
              ENABLED RemoteResolves(r, [type |-> "object", response |-> Undef])

\* A step touches one request only, and never rewrites a response.
OneRequestPerStep ==
    /\ \A r, q \in Reqs :
          r # q => ~(PerRequest(r)' # PerRequest(r) /\ PerRequest(q)' # PerRequest(q))
    /\ \A r \in Reqs : pc[r] \in {"answered", "unhandled"} => PerRequest(r)' = PerRequest(r)

====
